---- MODULE Spec2Model ----
(***************************************************************************)
(* Link budget calculator (linkbudget/calc.py, pointing.py, main.py).      *)
(*                                                                         *)
(* The program is a set of pure functions and one orchestrator.  A state   *)
(* of the model is one call in progress: which function runs (fn), the     *)
(* arguments it was given (args), what it returned or raised (ret) and,    *)
(* for the orchestrator, its position (pc), its local variables (loc),     *)
(* the calls it made so far (calls), the result dictionary (res) and the   *)
(* JSON record it printed (printed).  For path_loss, evaluated lists the   *)
(* quantities the function evaluated, in order.                            *)
(*                                                                         *)
(* Numbers.  The source computes in IEEE doubles; the model computes in    *)
(* fixed point:                                                            *)
(*   - decibel quantities are integers in tenths of a dB (ddB),            *)
(*   - linear ratios and temperatures are integers in thousandths          *)
(*     (1.0 = 1000, 1 K = 1000),                                           *)
(*   - frequencies are in MHz, distances in km, wavelengths in um,         *)
(*     angles in whole degrees, trigonometric values in 1/10000.           *)
(* Numeric inputs are physical: frequencies, distances, diameters,         *)
(* cross-sections and bandwidths are positive.                             *)
(*                                                                         *)
(* An optional Python value is a sequence: None is << >> and a value x is  *)
(* << x >>.                                                                *)
(***************************************************************************)
EXTENDS Integers, Sequences, FiniteSets, TLC

VARIABLES pc, fn, args, ret, evaluated, calls, loc, res, printed

vars == << pc, fn, args, ret, evaluated, calls, loc, res, printed >>

None == << >>

Some(x) == << x >>

\* A call's outcome: a returned value or a raised exception.
Ok(v) == [exc |-> "none", msg |-> "", val |-> v]

Raise(e, m) == [exc |-> e, msg |-> m, val |-> None]

NoCall == [exc |-> "none", msg |-> "", val |-> None]

-----------------------------------------------------------------------------
(* Fixed-point arithmetic                                                  *)

\* 10^(i/100) in thousandths, i = 0 .. 100.
Pow10Tab ==
 << 1000, 1023, 1047, 1072, 1096, 1122, 1148, 1175, 1202, 1230,
    1259, 1288, 1318, 1349, 1380, 1413, 1445, 1479, 1514, 1549,
    1585, 1622, 1660, 1698, 1738, 1778, 1820, 1862, 1905, 1950,
    1995, 2042, 2089, 2138, 2188, 2239, 2291, 2344, 2399, 2455,
    2512, 2570, 2630, 2692, 2754, 2818, 2884, 2951, 3020, 3090,
    3162, 3236, 3311, 3388, 3467, 3548, 3631, 3715, 3802, 3890,
    3981, 4074, 4169, 4266, 4365, 4467, 4571, 4677, 4786, 4898,
    5012, 5129, 5248, 5370, 5495, 5623, 5754, 5888, 6026, 6166,
    6310, 6457, 6607, 6761, 6918, 7079, 7244, 7413, 7586, 7762,
    7943, 8128, 8318, 8511, 8710, 8913, 9120, 9333, 9550, 9772,
    10000 >>

RECURSIVE Pow10(_)
Pow10(k) == IF k = 0 THEN 1 ELSE 10 * Pow10(k - 1)

\* Product and quotient of two values in thousandths.
MulFix(a, b) == (a \div 1000) * b + ((a % 1000) * b) \div 1000

DivFix(a, b) == (a * 1000) \div b

\* math.log10 of the positive ratio n/d, in hundredths (to the nearest:
\* 1012/1000 is 10^(1/200)).
RECURSIVE Log10C(_, _)
Log10C(n, d) ==
    IF n \div 10 >= d
    THEN 100 + (IF d <= 100000000 THEN Log10C(n, 10 * d)
                                   ELSE Log10C(n \div 10, d))
    ELSE IF n < d
    THEN (IF n <= 100000000 THEN Log10C(10 * n, d)
                            ELSE Log10C(n, d \div 10)) - 100
    ELSE LET m == IF n <= 2000000 THEN (n * 1000) \div d
                                  ELSE n \div (d \div 1000)
         IN  Cardinality({i \in 1..101 : Pow10Tab[i] * 1000 <= m * 1012}) - 1

\* util.db_to_abs: 10^(x/10) for x in ddB, in thousandths.
db_to_abs(x) ==
    LET k == x \div 100
        m == Pow10Tab[(x % 100) + 1]
    IN  IF k >= 0 THEN m * Pow10(k)
        ELSE IF k < -4 THEN 0
        ELSE m \div Pow10(-k)

\* util.abs_to_db: 10*log10(v) for v in thousandths, in ddB.
abs_to_db(v) == Log10C(v, 1000)

-----------------------------------------------------------------------------
(* calc.py                                                                 *)

SPEED_OF_LIGHT == 299792458

T0 == 290

\* math.pi in thousandths.
PiMilli == 3142

\* wavelength = SPEED_OF_LIGHT / freq     (freq in MHz, wavelength in um)
Wavelength(freq) == SPEED_OF_LIGHT \div freq

\* 20*log10(4*pi*d/wavelength)            (d in km: the ratio carries 10^9)
Lfs_one_way_db(d, wavelength) ==
    2 * (Log10C(4 * PiMilli * d, 1000 * wavelength) + 900)

\* 10*log10(4*pi*rcs/(wavelength**2))     (rcs in m^2)
G_obj_db(rcs, wavelength) ==
    Log10C(4 * PiMilli * rcs, (wavelength \div 10) * (wavelength \div 10))
        - 300 + 1000

\* calc.eirp
eirp(tx_power, tx_dish_gain) == tx_power + tx_dish_gain

\* path_loss with the two radar checks in the other order (C3).
path_loss_rx_first(d, freq, radar, rcs, bistatic, d_rx) ==
    LET wavelength == Wavelength(freq)
        one_way    == Lfs_one_way_db(d, wavelength)
        ev1        == << "wavelength", "Lfs_one_way_db" >>
    IN  IF radar /\ bistatic /\ d_rx = None
        THEN Raise("ValueError", "Rx distance required in bistatic radar mode")
             @@ [evaluated |-> ev1]
        ELSE IF radar /\ rcs = None
        THEN Raise("ValueError", "Radar cross section required in radar mode")
             @@ [evaluated |-> ev1]
        ELSE IF radar /\ bistatic
        THEN Ok(Some(one_way + Lfs_one_way_db(d_rx[1], wavelength)
                       - G_obj_db(rcs[1], wavelength)))
             @@ [evaluated |-> ev1 \o << "G_obj_db", "Lfs_rx_db", "Lfs_db" >>]
        ELSE IF radar
        THEN Ok(Some(2 * one_way - G_obj_db(rcs[1], wavelength)))
             @@ [evaluated |-> ev1 \o << "G_obj_db", "Lfs_db" >>]
        ELSE Ok(Some(one_way)) @@ [evaluated |-> Append(ev1, "Lfs_db")]

\* path_loss counting the path to the radar object once (C8).
path_loss_one_leg(d, freq, radar, rcs, bistatic, d_rx) ==
    LET r == path_loss_rx_first(d, freq, radar, rcs, bistatic, d_rx)
    IN  IF radar /\ ~ bistatic /\ rcs # None
        THEN [r EXCEPT !.val = Some(Lfs_one_way_db(d, Wavelength(freq))
                                      - G_obj_db(rcs[1], Wavelength(freq)))]
        ELSE r

\* calc.path_loss.  The outcome carries the quantities evaluated on the way,
\* in the order the function evaluates them.
path_loss(d, freq, radar, rcs, bistatic, d_rx) ==
    LET wavelength == Wavelength(freq)
        one_way    == Lfs_one_way_db(d, wavelength)
        ev1        == << "wavelength", "Lfs_one_way_db" >>
    IN  IF radar
        THEN IF rcs = None
             THEN Raise("ValueError",
                        "Radar cross section required in radar mode")
                  @@ [evaluated |-> ev1]
             ELSE LET g_obj == G_obj_db(rcs[1], wavelength)
                      ev2   == Append(ev1, "G_obj_db")
                  IN  IF bistatic
                      THEN IF d_rx = None
                           THEN Raise("ValueError",
                                  "Rx distance required in bistatic radar mode")
                                @@ [evaluated |-> ev2]
                           ELSE LET Lfs_tx_db == one_way
                                    Lfs_rx_db ==
                                        Lfs_one_way_db(d_rx[1], wavelength)
                                IN  Ok(Some(Lfs_tx_db + Lfs_rx_db - g_obj))
                                    @@ [evaluated |->
                                          ev2 \o << "Lfs_rx_db", "Lfs_db" >>]
                      ELSE Ok(Some(2 * one_way - g_obj))
                           @@ [evaluated |-> Append(ev2, "Lfs_db")]
        ELSE Ok(Some(one_way)) @@ [evaluated |-> Append(ev1, "Lfs_db")]

\* calc.dish_gain: 10*log10(7*face_area/wavelength**2), face_area =
\* pi*(diameter/2)**2                     (diameter in cm: carries 10^6)
dish_gain(diameter, freq) ==
    LET wavelength == Wavelength(freq)
        face_area  == (PiMilli * diameter * diameter) \div 4
    IN  Log10C(7 * face_area,
               (wavelength \div 10) * (wavelength \div 10)) - 300 + 600

\* coax_loss_nf with the noise factor 1 + (Tl/T0)*loss (C12).
coax_loss_nf_no_offset(length_ft, Tl) ==
    LET loss_db      == (length_ft * 8) \div 10
        loss         == db_to_abs(loss_db)
        noise_factor == 1000 + (Tl * loss) \div T0
    IN  << loss_db, Log10C(noise_factor, 1000) >>

\* calc.coax_loss_nf: << loss_db, noise_fig >>   (length in feet, Tl in K)
coax_loss_nf(length_ft, Tl) ==
    LET loss_db      == (length_ft * 8) \div 10
        loss         == db_to_abs(loss_db)
        noise_factor == 1000 + (Tl * (loss - 1000)) \div T0
    IN  << loss_db, Log10C(noise_factor, 1000) >>

\* coax_loss_nf called without Tl (line 128: Tl=T0).
coax_loss_nf_default(length_ft) == coax_loss_nf(length_ft, T0)

\* The loop of calc.total_noise_figure (Equation 8-34): stage i adds
\* (nf_abs - 1) / G_prod, G_prod the gain of the stages before it.
RECURSIVE Cascade(_, _, _, _, _)
Cascade(nfs, gains, i, F, G_prod) ==
    IF i > Len(nfs) - 1
    THEN F
    ELSE LET nf_abs == db_to_abs(nfs[i + 1])
             G      == MulFix(G_prod, db_to_abs(gains[i]))
         IN  Cascade(nfs, gains, i + 1, F + DivFix(nf_abs - 1000, G), G)

\* total_noise_figure accepting more gains than it uses (C2).
total_noise_figure_lax(nfs, gains) ==
    IF ~ (Len(nfs) > 0) THEN Raise("AssertionError", "")
    ELSE IF ~ (Len(gains) > 0) THEN Raise("AssertionError", "")
    ELSE IF ~ (Len(gains) >= Len(nfs) - 1) THEN Raise("AssertionError", "")
    ELSE IF Len(nfs) = 1 THEN Ok(Some(nfs[1]))
    ELSE LET F == Cascade(nfs, gains, 1, db_to_abs(nfs[1]), 1000)
         IN  Ok(Some(Log10C(F, 1000)))

\* calc.total_noise_figure
total_noise_figure(nfs, gains) ==
    IF ~ (Len(nfs) > 0) THEN Raise("AssertionError", "")
    ELSE IF ~ (Len(gains) > 0) THEN Raise("AssertionError", "")
    ELSE IF ~ (Len(gains) = Len(nfs) - 1) THEN Raise("AssertionError", "")
    ELSE IF Len(nfs) = 1 THEN Ok(Some(nfs[1]))
    ELSE LET F == Cascade(nfs, gains, 1, db_to_abs(nfs[1]), 1000)
         IN  Ok(Some(Log10C(F, 1000)))

\* noise_fig_to_noise_temp without the "- 1" of Equation 8-30b (C11).
noise_fig_to_noise_temp_total(nf) == T0 * db_to_abs(nf)

\* calc.noise_fig_to_noise_temp: Te = T0 * (nf_abs - 1), in mK
noise_fig_to_noise_temp(nf) == T0 * (db_to_abs(nf) - 1000)

\* calc.noise_temp_to_noise_fig: 10*log10(1 + Te/T0)
noise_temp_to_noise_fig(Te) == Log10C(1000 + Te \div T0, 1000)

\* calc.rx_sys_noise_temp
rx_sys_noise_temp(Tar, Te) == Tar + Te

\* Boltzmann's constant in ddB (k_db = -228.6).
k_db == -2286

\* cnr with Boltzmann's constant added instead of subtracted (C13).
cnr_k_added(eirp_db, path_loss_db, rx_ant_gain_db, T_sys_db, bw) ==
    LET bw_db       == Log10C(bw, 1)
        g_over_t_db == rx_ant_gain_db - T_sys_db
    IN  eirp_db - path_loss_db + g_over_t_db + k_db - bw_db

\* calc.cnr                                (bw in Hz)
cnr(eirp_db, path_loss_db, rx_ant_gain_db, T_sys_db, bw) ==
    LET bw_db       == Log10C(bw, 1)
        g_over_t_db == rx_ant_gain_db - T_sys_db
    IN  eirp_db - path_loss_db + g_over_t_db - k_db - bw_db

\* calc.capacity: bw * log2(1 + snr), in kbit/s
capacity(snr_db, bw) ==
    LET snr == db_to_abs(snr_db)
    IN  ((bw \div 1000) * Log10C(1000 + snr, 1000) * 10) \div 301

-----------------------------------------------------------------------------
(* pointing.py                                                             *)

\* cos of 0 .. 90 degrees in 1/10000.
CosTab ==
 << 10000, 9998, 9994, 9986, 9976, 9962, 9945, 9925, 9903, 9877,
    9848, 9816, 9781, 9744, 9703, 9659, 9613, 9563, 9511, 9455,
    9397, 9336, 9272, 9205, 9135, 9063, 8988, 8910, 8829, 8746,
    8660, 8572, 8480, 8387, 8290, 8192, 8090, 7986, 7880, 7771,
    7660, 7547, 7431, 7314, 7193, 7071, 6947, 6820, 6691, 6561,
    6428, 6293, 6157, 6018, 5878, 5736, 5592, 5446, 5299, 5150,
    5000, 4848, 4695, 4540, 4384, 4226, 4067, 3907, 3746, 3584,
    3420, 3256, 3090, 2924, 2756, 2588, 2419, 2250, 2079, 1908,
    1736, 1564, 1392, 1219, 1045, 872, 698, 523, 349, 175,
    0 >>

\* cos(radians(a)), a in whole degrees.
Cos(a) ==
    LET b == a % 360
    IN  IF b <= 90 THEN CosTab[b + 1]
        ELSE IF b <= 180 THEN - CosTab[180 - b + 1]
        ELSE IF b <= 270 THEN - CosTab[b - 180 + 1]
        ELSE CosTab[360 - b + 1]

\* sin(radians(a))
Sin(a) == Cos(a - 90)

\* tan(radians(a)), a not +-90
Tan(a) == (Sin(a) * 10000) \div Cos(a)

\* degrees(acos(x)), x in 1/10000, in whole degrees (rounded down).
Acos(x) == Cardinality({a \in 1..180 : Cos(a) >= x})

\* math.sqrt of a natural number (rounded down).
RECURSIVE SqrtIn(_, _, _)
SqrtIn(n, lo, hi) ==
    IF lo >= hi THEN lo
    ELSE LET mid == (lo + hi + 1) \div 2
         IN  IF mid * mid <= n THEN SqrtIn(n, mid, hi)
                               ELSE SqrtIn(n, lo, mid - 1)

Sqrt(n) == SqrtIn(n, 0, 46340)

\* Product of two values in 1/10000.
MulTrig(a, b) == (a * b) \div 10000

\* Mean and equatorial radius of the earth, geostationary altitude (km).
R_mean == 6371

R_eq == 6378

GeoAlt == 35786

\* GRS80 eccentricity squared, e_sq = 2*f - f**2, in 1/1000000.
e_sq == 6694

\* _look_angles_spherical: the azimuth case split (lines 153-168).
SphericalAzimuth(rx_lat, sat_long, rx_long, beta) ==
    IF rx_lat > 0
    THEN IF sat_long < rx_long THEN 180 + beta ELSE 180 - beta
    ELSE IF sat_long < rx_long THEN 360 - beta ELSE beta

\* Line 150 takes acos of the double quotient tan(rx_lat)/tan(gamma).  With
\* the satellite on the receiver's meridian or on the opposite one, and at
\* the poles, the exact quotient is 1 or -1 and the rounding of cos, acos and
\* tan decides whether the double lies inside acos's domain [-1, 1] or
\* outside it: both happen (sat_long = rx_long: 180.0 for rx_lat = 33,
\* ValueError for rx_lat = 30), and fixed point cannot tell which.
Roundings == {"inside", "outside"}

RoundingSensitive(sat_long, rx_long, rx_lat) ==
    /\ rx_lat # 0
    /\ \/ rx_lat \in {-90, 90}
       \/ (sat_long - rx_long) % 180 = 0

\* _look_angles_spherical: << elevation, azimuth, slant range >>, with the
\* angle beta it computed.  sin(gamma) is taken from cos_gamma (gamma =
\* acos(cos_gamma) lies in [0, 180]); rounding is the side the quotient of
\* line 150 falls on where RoundingSensitive holds.
\*   - rx_lat = 0 below the satellite: gamma = 0.0 and tan(gamma) = 0.0, the
\*     quotient raises ZeroDivisionError;
\*   - rx_lat = 0 elsewhere: the quotient is 0 (also opposite the satellite,
\*     where tan(pi) is not 0.0 in doubles) and beta is 90;
\*   - everywhere else the quotient lies strictly inside [-1, 1].
look_angles_spherical(sat_long, rx_long, rx_lat, sat_alt, rounding) ==
    LET r         == R_eq + sat_alt
        cos_gamma == MulTrig(Cos(rx_lat), Cos(sat_long - rx_long))
        sin_gamma == Sqrt(100000000 - cos_gamma * cos_gamma)
        R_over_r  == (R_mean * 10000) \div r
        d         == (r * Sqrt(10000 * (10000 + MulTrig(R_over_r, R_over_r)
                               - 2 * MulTrig(R_over_r, cos_gamma))))
                       \div 10000
        sin_z0    == (r * sin_gamma) \div d
        sin_z     == IF sin_z0 > 10000 THEN 10000 ELSE sin_z0
        z         == 90 - Acos(sin_z)
        v         == 90 - z
        same_side == (sat_long - rx_long) % 360 = 0 \/ rx_lat \in {-90, 90}
        q         == (Tan(rx_lat) * cos_gamma) \div sin_gamma
        cos_beta  == IF rx_lat = 0 THEN 0
                     ELSE IF RoundingSensitive(sat_long, rx_long, rx_lat)
                     THEN (IF (rx_lat > 0) = same_side THEN 10000 ELSE -10000)
                     ELSE IF q > 10000 THEN 10000
                     ELSE IF q < -10000 THEN -10000
                     ELSE q
    IN  IF rx_lat = 0 /\ (sat_long - rx_long) % 360 = 0
        THEN Raise("ZeroDivisionError", "float division by zero")
             @@ [beta |-> None]
        ELSE IF RoundingSensitive(sat_long, rx_long, rx_lat)
                  /\ rounding = "outside"
        THEN Raise("ValueError", "math domain error") @@ [beta |-> None]
        ELSE LET beta == Acos(cos_beta)
             IN  Ok(<< v, SphericalAzimuth(rx_lat, sat_long, rx_long, beta),
                       d >>) @@ [beta |-> Some(beta)]

\* _look_angles_ellipsoidal: << elevation, azimuth, slant range >>
look_angles_ellipsoidal(sat_long, rx_long, rx_lat, rx_height, sat_alt) ==
    LET r    == R_eq + sat_alt
        sin2 == MulTrig(Sin(rx_lat), Sin(rx_lat))
        N    == (R_eq * 1000) \div Sqrt(1000000 - (e_sq * sin2) \div 10000)
        h    == 0 + rx_height
        x_p  == MulTrig(MulTrig(N + h, Cos(rx_long)), Cos(rx_lat))
        y_p  == MulTrig(MulTrig(N + h, Sin(rx_long)), Cos(rx_lat))
        z_p  == ((N - (N * e_sq) \div 1000000 + h) * Sin(rx_lat)) \div 10000
        x_s  == (r * Cos(sat_long)) \div 10000
        y_s  == (r * Sin(sat_long)) \div 10000
        z_s  == 0
        rx   == x_s - x_p
        ry   == y_s - y_p
        rz   == z_s - z_p
        slant_range == Sqrt(rx * rx + ry * ry + rz * rz)
        e    == (- Sin(rx_long) * rx + Cos(rx_long) * ry) \div 10000
        n    == (- MulTrig(Sin(rx_lat), Cos(rx_long)) * rx
                 - MulTrig(Sin(rx_lat), Sin(rx_long)) * ry
                 + Cos(rx_lat) * rz) \div 10000
        u    == (MulTrig(Cos(rx_lat), Cos(rx_long)) * rx
                 + MulTrig(Cos(rx_lat), Sin(rx_long)) * ry
                 + Sin(rx_lat) * rz) \div 10000
        hor  == Sqrt(e * e + n * n)
        atan2_e_n  == IF hor = 0 THEN 0
                      ELSE IF e >= 0 THEN Acos((n * 10000) \div hor)
                      ELSE - Acos((n * 10000) \div hor)
        vert_angle == IF hor = 0 THEN (IF u >= 0 THEN 90 ELSE -90)
                      ELSE IF u >= 0
                      THEN Acos((hor * 10000) \div Sqrt(hor * hor + u * u))
                      ELSE - Acos((hor * 10000) \div Sqrt(hor * hor + u * u))
    IN  << vert_angle, atan2_e_n % 360, slant_range >>

\* look_angles accepting the two known selectors only (C15).
look_angles_closed(sat_long, rx_long, rx_lat, sat_alt, implementation, rounding) ==
    IF implementation = "ellipsoidal"
    THEN Ok(look_angles_ellipsoidal(sat_long, rx_long, rx_lat, 0, sat_alt))
    ELSE IF implementation = "spherical"
    THEN LET r == look_angles_spherical(sat_long, rx_long, rx_lat, sat_alt,
                                        rounding)
         IN  [exc |-> r.exc, msg |-> r.msg, val |-> r.val]
    ELSE Raise("ValueError", "unknown implementation")

\* pointing.look_angles (rounding: see look_angles_spherical)
look_angles(sat_long, rx_long, rx_lat, sat_alt, implementation, rounding) ==
    IF implementation = "ellipsoidal"
    THEN Ok(look_angles_ellipsoidal(sat_long, rx_long, rx_lat, 0, sat_alt))
    ELSE LET r == look_angles_spherical(sat_long, rx_long, rx_lat, sat_alt,
                                        rounding)
         IN  [exc |-> r.exc, msg |-> r.msg, val |-> r.val]

\* look_angles called without a selector (line 174:
\* implementation='ellipsoidal').
look_angles_default(sat_long, rx_long, rx_lat, sat_alt) ==
    look_angles(sat_long, rx_long, rx_lat, sat_alt, "ellipsoidal", "inside")

-----------------------------------------------------------------------------
(* main.py                                                                 *)

\* Python truth value of an optional float: None and 0.0 are false.
Truthy(x) == x # None /\ x[1] # 0

\* main.validate: the parser.error it ends in, or none.
validate(a) ==
    IF Truthy(a.tx_power) /\ a.tx_dish_size = None /\ a.tx_dish_gain = None
    THEN Raise("SystemExit", "Define either --tx-dish-size or --tx-dish-gain")
    ELSE IF a.radar /\ a.radar_alt = None
    THEN Raise("SystemExit", "Argument --radar-alt is required in radar mode")
    ELSE IF a.radar /\ a.radar_cross_section = None
    THEN Raise("SystemExit",
               "Argument --radar-cross-section is required in radar mode")
    ELSE Ok(None)

\* The altitude taken from --radar-alt whenever it is given (C10).
SatAlt_supplied(a) == IF a.radar_alt = None THEN Some(GeoAlt) ELSE a.radar_alt

\* analyze, line 192: the altitude given to the look-angle solver.
SatAlt(a) == IF ~ a.radar THEN Some(GeoAlt) ELSE a.radar_alt

\* analyze, lines 192-195: the call of look_angles.  Without an altitude
\* (radar mode and no --radar-alt) the solver's r = R_eq + sat_alt raises.
Geometry(a) ==
    IF SatAlt(a) = None
    THEN Raise("TypeError",
               "unsupported operand type(s) for +: 'float' and 'NoneType'")
    ELSE look_angles_default(a.sat_long, a.rx_long, a.rx_lat, SatAlt(a)[1])

\* analyze, lines 198-208: the transmit gain and the EIRP.
TxGain(a) ==
    IF a.tx_dish_gain = None
    THEN IF a.tx_dish_size = None
         THEN Raise("TypeError",
                    "unsupported operand type(s) for /: 'NoneType' and 'int'")
         ELSE Ok(Some(dish_gain(a.tx_dish_size[1], a.freq)))
    ELSE Ok(a.tx_dish_gain)

\* The EIRP stage looking at the transmit dish gain before the EIRP: a
\* supplied gain is used with the transmit power, 0 dBW if there is none (C14).
Eirp_gain_first(a) ==
    IF a.tx_dish_gain # None
    THEN Ok(Some(eirp(IF a.tx_power = None THEN 0 ELSE a.tx_power[1],
                      a.tx_dish_gain[1])))
    ELSE IF a.eirp = None
    THEN LET g == TxGain(a)
         IN  IF g.exc # "none" THEN g
             ELSE Ok(Some(eirp(a.tx_power[1], g.val[1])))
    ELSE Ok(a.eirp)

Eirp(a) ==
    IF a.eirp = None
    THEN LET g == TxGain(a)
         IN  IF g.exc # "none" THEN g
             ELSE Ok(Some(eirp(a.tx_power[1], g.val[1])))
    ELSE Ok(a.eirp)

\* The keys of the result dictionary (lines 255-276).
ResultKeys ==
    {"pointing", "eirp_db", "path_loss_db", "rx_dish_gain_db", "noise_fig_db",
     "noise_temp_k", "cnr_db", "capacity_bps"}

\* The result dictionary built from the locals.
Result(l) ==
    [pointing |-> [elevation |-> l.elevation, azimuth |-> l.azimuth,
                   slant_range |-> l.slant_range],
     eirp_db |-> l.eirp,
     path_loss_db |-> l.path_loss_db,
     rx_dish_gain_db |-> l.dish_gain_db,
     noise_fig_db |-> [lnb |-> l.lnb_noise_fig, coax |-> l.coax_noise_fig_db,
                       total |-> l.noise_fig_db],
     noise_temp_k |-> [effective_input |-> l.effective_input_noise_temp,
                       system |-> l.T_syst],
     cnr_db |-> l.cnr,
     capacity_bps |-> l.capacity]

\* main.analyze as a function of the namespace: the result dictionary it
\* returns, or the exception that leaves it.
analyze(a) ==
    LET la   == Geometry(a)
        e    == Eirp(a)
        pl   == path_loss(la.val[3], a.freq, a.radar, a.radar_cross_section,
                          a.radar_bistatic, None)
        dish_gain_db == IF a.rx_dish_gain = None
                        THEN dish_gain(a.rx_dish_size[1], a.freq)
                        ELSE a.rx_dish_gain[1]
        coax == coax_loss_nf(a.coax_length, T0)
        lnb  == IF a.lnb_noise_fig = None
                THEN noise_temp_to_noise_fig(a.lnb_noise_temp[1])
                ELSE a.lnb_noise_fig[1]
        nf   == total_noise_figure(<< lnb, coax[2], a.rx_noise_fig >>,
                                   << a.lnb_gain, - coax[1] >>)
        Te     == noise_fig_to_noise_temp(nf.val[1])
        T_syst == rx_sys_noise_temp(a.antenna_noise_temp, Te)
        c    == cnr(e.val[1], pl.val[1], dish_gain_db, abs_to_db(T_syst),
                    a.if_bw)
    IN  IF la.exc # "none" THEN la
        ELSE IF e.exc # "none" THEN e
        ELSE IF pl.exc # "none"
        THEN [exc |-> pl.exc, msg |-> pl.msg, val |-> pl.val]
        ELSE IF nf.exc # "none" THEN nf
        ELSE Ok(Some(Result(
                 [elevation |-> la.val[1], azimuth |-> la.val[2],
                  slant_range |-> la.val[3], eirp |-> e.val[1],
                  path_loss_db |-> pl.val[1], dish_gain_db |-> dish_gain_db,
                  lnb_noise_fig |-> lnb, coax_noise_fig_db |-> coax[2],
                  noise_fig_db |-> nf.val[1],
                  effective_input_noise_temp |-> Te, T_syst |-> T_syst,
                  cnr |-> c, capacity |-> capacity(c, a.if_bw)])))

-----------------------------------------------------------------------------
(* Inputs                                                                  *)

\* The longest list of cascaded devices tried.
MaxStages == 3

\* The transmit powers tried are 0, 10, .. 10*MaxTxPower dBW.
MaxTxPower == 1

NoiseFigs == {10, 30, 80}

Gains == {-8, 200}

ListsOver(S, n) == UNION {[1..k -> S] : k \in 0..n}

Distances == {1000, 35786}

Freqs == {1296, 12000}

CrossSections == {1, 10}

Opt(S) == {None} \cup {Some(x) : x \in S}

\* Receiver latitudes, the poles included; satellite longitudes (the
\* receiver is at longitude 0), the receiver's meridian included and, for the
\* spherical solver, the opposite one.
Lats == {-90, -45, -10, 0, 10, 45, 90}

SatLongs == {-100, -10, 0, 10, 100}

SphericalSatLongs == SatLongs \cup {-180, 180}

RoundingsAt(sat_long, rx_long, rx_lat) ==
    IF RoundingSensitive(sat_long, rx_long, rx_lat) THEN Roundings
    ELSE {"inside"}

Altitudes == {1000, GeoAlt}

\* Noise figures 0 .. 15 dB in steps of 0.1 dB, noise temperatures 0 K ..
\* 5000 K (in mK).
NoiseFigures == 0..150

NoiseTemps == {0, 1000, 30000, 75000, 290000, 627000, 1000000, 5000000}

\* Line lengths 0 .. 300 ft in steps of 5 ft (0.4 dB), line temperatures
\* in K.
Lengths == {5 * k : k \in 0..60}

LineTemps == {77, T0, 350}

\* Values of the model selector of look_angles.
Implementations == {"ellipsoidal", "spherical", "geodetic", ""}

\* Arguments of cnr: EIRP (dBW), path loss (dB), antenna gain (dB), system
\* noise temperature (dBK), all in tenths, and bandwidth (Hz).
EirpLevels == {0, 500, 807}

PathLosses == {2051, 2759}

RxGains == {0, 350}

SysTemps == {200, 255}

Bandwidths == {1, 2400, 1000000, 24000000}

TxPowers == {100 * k : k \in 0..MaxTxPower}

\* The namespaces parse_args can return: of each mutually exclusive group
\* at most one option is set, and exactly one where the group is required.
Namespaces ==
    {a \in [json : BOOLEAN,
            eirp : Opt({500}),
            tx_power : Opt(TxPowers),
            tx_dish_size : Opt({240}),
            tx_dish_gain : Opt({400}),
            freq : Freqs,
            if_bw : {1000000},
            rx_dish_size : Opt({46}),
            rx_dish_gain : Opt({350}),
            antenna_noise_temp : {30000},
            lnb_noise_fig : Opt({10}),
            lnb_noise_temp : Opt({75000}),
            lnb_gain : {550},
            coax_length : {110},
            rx_noise_fig : {80},
            sat_long : {-95},
            rx_long : {-97},
            rx_lat : {-33, 33},
            radar : BOOLEAN,
            radar_alt : Opt({1000}),
            radar_cross_section : Opt({10}),
            radar_bistatic : BOOLEAN] :
        /\ (a.eirp = None) # (a.tx_power = None)
        /\ a.tx_dish_size = None \/ a.tx_dish_gain = None
        /\ (a.rx_dish_size = None) # (a.rx_dish_gain = None)
        /\ (a.lnb_noise_fig = None) # (a.lnb_noise_temp = None)}

-----------------------------------------------------------------------------
(* Calls                                                                   *)

Init ==
    /\ pc = "idle"
    /\ fn = "none"
    /\ args = [none |-> TRUE]
    /\ ret = NoCall
    /\ evaluated = << >>
    /\ calls = << >>
    /\ loc = [none |-> TRUE]
    /\ res = None
    /\ printed = None

CallTotalNoiseFigure ==
    /\ pc = "idle"
    /\ \E nfs \in ListsOver(NoiseFigs, MaxStages),
          gains \in ListsOver(Gains, MaxStages) :
          /\ args' = [nfs |-> nfs, gains |-> gains]
          /\ ret' = total_noise_figure(nfs, gains)
    /\ fn' = "total_noise_figure"
    /\ pc' = "returned"
    /\ UNCHANGED << evaluated, calls, loc, res, printed >>

CallPathLoss ==
    /\ pc = "idle"
    /\ \E d \in Distances, freq \in Freqs, radar \in BOOLEAN,
          rcs \in Opt(CrossSections), bistatic \in BOOLEAN,
          d_rx \in Opt(Distances) :
          LET r == path_loss(d, freq, radar, rcs, bistatic, d_rx)
          IN  /\ args' = [d |-> d, freq |-> freq, radar |-> radar,
                          rcs |-> rcs, bistatic |-> bistatic, d_rx |-> d_rx]
              /\ ret' = [exc |-> r.exc, msg |-> r.msg, val |-> r.val]
              /\ evaluated' = r.evaluated
    /\ fn' = "path_loss"
    /\ pc' = "returned"
    /\ UNCHANGED << calls, loc, res, printed >>

CallLookAnglesSpherical ==
    /\ pc = "idle"
    /\ \E sat_long \in SphericalSatLongs, rx_lat \in Lats,
          sat_alt \in Altitudes :
          \E rounding \in RoundingsAt(sat_long, 0, rx_lat) :
             LET r == look_angles_spherical(sat_long, 0, rx_lat, sat_alt,
                                            rounding)
             IN  /\ args' = [sat_long |-> sat_long, rx_long |-> 0,
                             rx_lat |-> rx_lat, sat_alt |-> sat_alt]
                 /\ ret' = [exc |-> r.exc, msg |-> r.msg, val |-> r.val]
                 /\ loc' = [beta |-> r.beta, rounding |-> rounding]
    /\ fn' = "_look_angles_spherical"
    /\ pc' = "returned"
    /\ UNCHANGED << evaluated, calls, res, printed >>

\* noise_fig_to_noise_temp applied to an input, or to the noise figure that
\* noise_temp_to_noise_fig just returned (loc.first keeps the first input).
CallNoiseFigToNoiseTemp ==
    /\ \/ /\ pc = "idle"
          /\ \E nf \in NoiseFigures :
                /\ args' = [nf |-> nf]
                /\ loc' = [first |-> nf]
                /\ ret' = Ok(Some(noise_fig_to_noise_temp(nf)))
          /\ pc' = "returned"
       \/ /\ pc = "returned" /\ fn = "noise_temp_to_noise_fig"
          /\ args' = [nf |-> ret.val[1]]
          /\ ret' = Ok(Some(noise_fig_to_noise_temp(ret.val[1])))
          /\ pc' = "round_trip"
          /\ UNCHANGED loc
    /\ fn' = "noise_fig_to_noise_temp"
    /\ UNCHANGED << evaluated, calls, res, printed >>

\* noise_temp_to_noise_fig applied to an input, or to the noise temperature
\* that noise_fig_to_noise_temp just returned.
CallNoiseTempToNoiseFig ==
    /\ \/ /\ pc = "idle"
          /\ \E Te \in NoiseTemps :
                /\ args' = [Te |-> Te]
                /\ loc' = [first |-> Te]
                /\ ret' = Ok(Some(noise_temp_to_noise_fig(Te)))
          /\ pc' = "returned"
       \/ /\ pc = "returned" /\ fn = "noise_fig_to_noise_temp"
          /\ args' = [Te |-> ret.val[1]]
          /\ ret' = Ok(Some(noise_temp_to_noise_fig(ret.val[1])))
          /\ pc' = "round_trip"
          /\ UNCHANGED loc
    /\ fn' = "noise_temp_to_noise_fig"
    /\ UNCHANGED << evaluated, calls, res, printed >>

\* coax_loss_nf, called with a line temperature or without one.
CallCoaxLossNf ==
    /\ pc = "idle"
    /\ \E length_ft \in Lengths, Tl \in Opt(LineTemps) :
          /\ args' = [length_ft |-> length_ft, Tl |-> Tl]
          /\ ret' = Ok(IF Tl = None THEN coax_loss_nf_default(length_ft)
                                    ELSE coax_loss_nf(length_ft, Tl[1]))
    /\ fn' = "coax_loss_nf"
    /\ pc' = "returned"
    /\ UNCHANGED << evaluated, calls, loc, res, printed >>

CallCnr ==
    /\ pc = "idle"
    /\ \E eirp_db \in EirpLevels, path_loss_db \in PathLosses,
          rx_ant_gain_db \in RxGains, T_sys_db \in SysTemps,
          bw \in Bandwidths :
          /\ args' = [eirp_db |-> eirp_db, path_loss_db |-> path_loss_db,
                      rx_ant_gain_db |-> rx_ant_gain_db,
                      T_sys_db |-> T_sys_db, bw |-> bw]
          /\ ret' = Ok(Some(cnr(eirp_db, path_loss_db, rx_ant_gain_db,
                                T_sys_db, bw)))
    /\ fn' = "cnr"
    /\ pc' = "returned"
    /\ UNCHANGED << evaluated, calls, loc, res, printed >>

\* look_angles, called with a selector or without one.
CallLookAngles ==
    /\ pc = "idle"
    /\ \E sat_long \in SatLongs, rx_lat \in Lats, sat_alt \in Altitudes,
          implementation \in Opt(Implementations) :
          \E rounding \in RoundingsAt(sat_long, 0, rx_lat) :
             /\ args' = [sat_long |-> sat_long, rx_long |-> 0,
                         rx_lat |-> rx_lat, sat_alt |-> sat_alt,
                         implementation |-> implementation]
             /\ ret' = IF implementation = None
                       THEN look_angles_default(sat_long, 0, rx_lat, sat_alt)
                       ELSE look_angles(sat_long, 0, rx_lat, sat_alt,
                                        implementation[1], rounding)
             /\ loc' = [rounding |-> rounding]
    /\ fn' = "look_angles"
    /\ pc' = "returned"
    /\ UNCHANGED << evaluated, calls, res, printed >>

\* main, line 286: args = parser.parse_args()
Parse ==
    /\ pc = "idle"
    /\ \E a \in Namespaces : args' = a
    /\ fn' = "main"
    /\ pc' = "parsed"
    /\ UNCHANGED << ret, evaluated, calls, loc, res, printed >>

\* main, line 287: validate(parser, args); parser.error exits the program.
Validate ==
    /\ pc = "parsed"
    /\ LET r == validate(args)
       IN  IF r.exc # "none"
           THEN pc' = "rejected" /\ ret' = r
           ELSE pc' = "geometry" /\ ret' = ret
    /\ UNCHANGED << fn, args, evaluated, calls, loc, res, printed >>

\* An exception caught, and the locals so far returned as the result (C6).
Raised_partial(r) ==
    /\ pc' = "done"
    /\ ret' = Ok(Some(loc))
    /\ res' = Some(loc)
    /\ printed' = IF args.json THEN Some(loc) ELSE None
    /\ UNCHANGED loc

\* An exception leaves analyze: nothing is returned and nothing printed.
Raised(r) ==
    /\ pc' = "raised"
    /\ ret' = r
    /\ UNCHANGED << loc, res, printed >>

Called(f, a) == calls' = Append(calls, [f |-> f, a |-> a])

\* analyze, lines 192-195: the geometry stage.
AnalyzeGeometry ==
    /\ pc = "geometry"
    /\ LET sat_alt == SatAlt(args)
           r == Geometry(args)
       IN  /\ Called("look_angles",
                     << args.sat_long, args.rx_long, args.rx_lat, sat_alt >>)
           /\ IF r.exc # "none"
              THEN Raised(r)
              ELSE /\ loc' = [sat_alt |-> sat_alt[1], elevation |-> r.val[1],
                              azimuth |-> r.val[2], slant_range |-> r.val[3]]
                   /\ pc' = "eirp"
                   /\ UNCHANGED << ret, res, printed >>
    /\ UNCHANGED << fn, args, evaluated >>

\* analyze, lines 197-211: the EIRP stage.
AnalyzeEirp ==
    /\ pc = "eirp"
    /\ LET r == Eirp(args)
       IN  /\ calls' = calls
                \o (IF args.eirp = None /\ args.tx_dish_gain = None
                    THEN << [f |-> "dish_gain",
                             a |-> << args.tx_dish_size, args.freq >>] >>
                    ELSE << >>)
                \o (IF args.eirp = None /\ r.exc = "none"
                    THEN << [f |-> "eirp",
                             a |-> << args.tx_power, TxGain(args).val >>] >>
                    ELSE << >>)
           /\ IF r.exc # "none"
              THEN Raised(r)
              ELSE /\ loc' = loc @@ [eirp |-> r.val[1]]
                   /\ pc' = "path_loss"
                   /\ UNCHANGED << ret, res, printed >>
    /\ UNCHANGED << fn, args, evaluated >>

\* analyze, lines 213-215: the path-loss stage (no d_rx is passed).
AnalyzePathLoss ==
    /\ pc = "path_loss"
    /\ LET r == path_loss(loc.slant_range, args.freq, args.radar,
                          args.radar_cross_section, args.radar_bistatic, None)
       IN  /\ Called("path_loss",
                     << loc.slant_range, args.freq, args.radar,
                        args.radar_cross_section, args.radar_bistatic, None >>)
           /\ evaluated' = r.evaluated
           /\ IF r.exc # "none"
              THEN Raised([exc |-> r.exc, msg |-> r.msg, val |-> r.val])
              ELSE /\ loc' = loc @@ [path_loss_db |-> r.val[1]]
                   /\ pc' = "rx_gain"
                   /\ UNCHANGED << ret, res, printed >>
    /\ UNCHANGED << fn, args >>

\* analyze, lines 219-223: the receive antenna gain.
AnalyzeRxGain ==
    /\ pc = "rx_gain"
    /\ IF args.rx_dish_gain = None
       THEN /\ Called("dish_gain", << args.rx_dish_size, args.freq >>)
            /\ loc' = loc @@ [dish_gain_db |->
                                dish_gain(args.rx_dish_size[1], args.freq)]
       ELSE /\ calls' = calls
            /\ loc' = loc @@ [dish_gain_db |-> args.rx_dish_gain[1]]
    /\ pc' = "noise"
    /\ UNCHANGED << fn, args, ret, evaluated, res, printed >>

\* analyze, lines 225-237: the noise cascade of LNB, coax and receiver.
AnalyzeNoise ==
    /\ pc = "noise"
    /\ LET coax == coax_loss_nf(args.coax_length, T0)
           lnb  == IF args.lnb_noise_fig = None
                   THEN noise_temp_to_noise_fig(args.lnb_noise_temp[1])
                   ELSE args.lnb_noise_fig[1]
           nfs   == << lnb, coax[2], args.rx_noise_fig >>
           gains == << args.lnb_gain, - coax[1] >>
           r     == total_noise_figure(nfs, gains)
       IN  /\ Called("total_noise_figure", << nfs, gains >>)
           /\ IF r.exc # "none"
              THEN Raised(r)
              ELSE /\ loc' = loc @@ [coax_loss_db |-> coax[1],
                                     coax_noise_fig_db |-> coax[2],
                                     lnb_noise_fig |-> lnb,
                                     noise_fig_db |-> r.val[1]]
                   /\ pc' = "noise_temp"
                   /\ UNCHANGED << ret, res, printed >>
    /\ UNCHANGED << fn, args, evaluated >>

\* analyze, lines 239-248: the system noise temperature.
AnalyzeNoiseTemp ==
    /\ pc = "noise_temp"
    /\ LET Te     == noise_fig_to_noise_temp(loc.noise_fig_db)
           T_syst == rx_sys_noise_temp(args.antenna_noise_temp, Te)
       IN  /\ Called("rx_sys_noise_temp", << args.antenna_noise_temp, Te >>)
           /\ loc' = loc @@ [effective_input_noise_temp |-> Te,
                             T_syst |-> T_syst,
                             T_syst_db |-> abs_to_db(T_syst)]
    /\ pc' = "cnr"
    /\ UNCHANGED << fn, args, ret, evaluated, res, printed >>

\* analyze, line 250: the carrier-to-noise ratio.
AnalyzeCnr ==
    /\ pc = "cnr"
    /\ Called("cnr", << loc.eirp, loc.path_loss_db, loc.dish_gain_db,
                        loc.T_syst_db, args.if_bw >>)
    /\ loc' = loc @@ [cnr |-> cnr(loc.eirp, loc.path_loss_db,
                                  loc.dish_gain_db, loc.T_syst_db,
                                  args.if_bw)]
    /\ pc' = "capacity"
    /\ UNCHANGED << fn, args, ret, evaluated, res, printed >>

\* analyze, line 252: the channel capacity.
AnalyzeCapacity ==
    /\ pc = "capacity"
    /\ Called("capacity", << loc.cnr, args.if_bw >>)
    /\ loc' = loc @@ [capacity |-> capacity(loc.cnr, args.if_bw)]
    /\ pc' = "result"
    /\ UNCHANGED << fn, args, ret, evaluated, res, printed >>

\* analyze, lines 254-281: build the result, print it in JSON mode, return.
AnalyzeReturn ==
    /\ pc = "result"
    /\ res' = Some(Result(loc))
    /\ printed' = IF args.json THEN Some(Result(loc)) ELSE None
    /\ ret' = Ok(Some(Result(loc)))
    /\ pc' = "done"
    /\ UNCHANGED << fn, args, evaluated, calls, loc >>

Next ==
    \/ CallTotalNoiseFigure
    \/ CallPathLoss
    \/ CallLookAnglesSpherical
    \/ CallNoiseFigToNoiseTemp
    \/ CallNoiseTempToNoiseFig
    \/ CallCoaxLossNf
    \/ CallCnr
    \/ CallLookAngles
    \/ Parse
    \/ Validate
    \/ AnalyzeGeometry
    \/ AnalyzeEirp
    \/ AnalyzePathLoss
    \/ AnalyzeRxGain
    \/ AnalyzeNoise
    \/ AnalyzeNoiseTemp
    \/ AnalyzeCnr
    \/ AnalyzeCapacity
    \/ AnalyzeReturn

Spec == Init /\ [][Next]_vars

-----------------------------------------------------------------------------
(* Properties                                                              *)

Range(q) == {q[i] : i \in 1..Len(q)}

Callees == {calls[i].f : i \in 1..Len(calls)}

RcsRequired == Raise("ValueError", "Radar cross section required in radar mode")

RxDistanceRequired ==
    Raise("ValueError", "Rx distance required in bistatic radar mode")

\* C1: total_noise_figure given one noise figure and no gains returns that
\* noise figure and raises nothing.
C1_SingleStageIdentity ==
    (fn = "total_noise_figure" /\ Len(args.nfs) = 1 /\ args.gains = << >>)
        => ret = Ok(Some(args.nfs[1]))

\* C2: total_noise_figure given no noise figure, or a number of gains other
\* than the number of noise figures minus one, raises and returns nothing.
C2_ArityMismatchRejected ==
    (fn = "total_noise_figure"
       /\ (Len(args.nfs) = 0 \/ Len(args.gains) # Len(args.nfs) - 1))
        => (ret.exc = "AssertionError" /\ ret.val = None)

\* Three noise figures with a single gain (a truncated list) were rejected.
C2_Witness ==
    /\ fn = "total_noise_figure"
    /\ Len(args.nfs) = 3
    /\ Len(args.gains) = 1
    /\ ret.exc = "AssertionError"

\* C3: path_loss in radar mode without a cross-section raises the ValueError
\* for the missing cross-section whatever the other arguments are, and with
\* radar mode off it raises no ValueError.
C3_RadarNeedsRcs ==
    fn = "path_loss"
        => /\ (args.radar /\ args.rcs = None) => ret = RcsRequired
           /\ ~ args.radar => (ret.exc = "none" /\ ret.val # None)

\* A bistatic radar call without cross-section and without receiver distance
\* ended in the missing cross-section error.
C3_Witness ==
    /\ fn = "path_loss"
    /\ args.radar /\ args.bistatic
    /\ args.rcs = None /\ args.d_rx = None
    /\ ret = RcsRequired

\* C4: path_loss in bistatic radar mode without the receiver distance raises
\* before the one-way loss or the object gain is evaluated.
C4_RejectBeforeCompute ==
    (fn = "path_loss" /\ args.radar /\ args.bistatic
       /\ args.rcs # None /\ args.d_rx = None)
        => /\ ret = RxDistanceRequired
           /\ "Lfs_one_way_db" \notin Range(evaluated)
           /\ "G_obj_db" \notin Range(evaluated)

\* C5: arguments with a transmit power, no EIRP, no transmit dish size and no
\* transmit dish gain are rejected by validate, so analyze never runs on them.
C5_ValidateRejects ==
    (fn = "main" /\ pc # "parsed" /\ args.eirp = None
       /\ args.tx_dish_size = None /\ args.tx_dish_gain = None)
        => (pc = "rejected" /\ calls = << >>)

\* C6: analyze returns a result only after every stage ran, and the result
\* then holds every field; when a stage raises there is no result and
\* nothing is printed.
C6_NoPartialResult ==
    fn = "main"
        => /\ res # None =>
                /\ pc = "done"
                /\ ret = Ok(res)
                /\ DOMAIN res[1] = ResultKeys
                /\ {"look_angles", "path_loss", "total_noise_figure",
                    "rx_sys_noise_temp", "cnr", "capacity"} \subseteq Callees
                /\ {"eirp", "dish_gain_db"} \subseteq DOMAIN loc
           /\ pc = "done" => res # None
           /\ pc \in {"raised", "rejected"} =>
                (ret.exc # "none" /\ res = None /\ printed = None)
           /\ printed # None => (args.json /\ printed = res)

\* A run in JSON mode raised in the path-loss stage, after the geometry and
\* EIRP stages had completed.
C6_Witness ==
    /\ fn = "main"
    /\ pc = "raised"
    /\ args.json
    /\ "path_loss" \in Callees
    /\ "eirp" \in DOMAIN loc
    /\ res = None /\ printed = None

\* C7: every run of analyze in radar mode with the bistatic flag ends in the
\* error for the missing receiver distance and yields no result; with radar
\* mode off the path loss is the one of the same run without the flag.
C7_BistaticAlwaysRejected ==
    (fn = "main" /\ pc \in {"done", "raised"})
        => /\ (args.radar /\ args.radar_bistatic) =>
                (ret = RxDistanceRequired /\ res = None)
           /\ (~ args.radar /\ pc = "done") =>
                loc.path_loss_db =
                    path_loss(loc.slant_range, args.freq, FALSE,
                              args.radar_cross_section, FALSE, None).val[1]

\* C8: the monostatic radar loss is twice the non-radar loss minus the object
\* gain, and the non-radar loss is the one-way loss.
C8_Monostatic ==
    fn = "path_loss"
        => /\ ~ args.radar =>
                ret = Ok(Some(Lfs_one_way_db(args.d, Wavelength(args.freq))))
           /\ (args.radar /\ ~ args.bistatic /\ args.rcs # None) =>
                ret = Ok(Some(
                    2 * path_loss(args.d, args.freq, FALSE, None, FALSE,
                                  None).val[1]
                      - G_obj_db(args.rcs[1], Wavelength(args.freq))))

\* The example d = 1000 km, freq = 1.296 GHz, rcs = 10 m^2 gave 275.9 dB
\* (275.69 dB in doubles).
C8_Witness ==
    /\ fn = "path_loss"
    /\ args.d = 1000 /\ args.freq = 1296
    /\ args.radar /\ ~ args.bistatic /\ args.rcs = Some(10)
    /\ ret = Ok(Some(2759))

\* C9: the spherical solver's azimuth lies in [0, 360) and in the quadrant of
\* the case taken: SW or SE for a receiver north of the equator, NW or NE
\* otherwise.
C9_AzimuthQuadrant ==
    (fn = "_look_angles_spherical" /\ ret.exc = "none")
        => LET az   == ret.val[2]
               west == args.sat_long < args.rx_long
           IN  /\ az >= 0 /\ az < 360
               /\ (args.rx_lat > 0 /\ west) => (180 <= az /\ az <= 270)
               /\ (args.rx_lat > 0 /\ ~ west) => (90 <= az /\ az <= 180)
               /\ (~ (args.rx_lat > 0) /\ west) => (270 <= az /\ az < 360)
               /\ (~ (args.rx_lat > 0) /\ ~ west) => (0 <= az /\ az <= 90)

\* C10: analyze gives the look-angle solver the geostationary altitude when
\* radar mode is off and the radar altitude when it is on, and gives
\* path_loss the slant range the solver returned for that altitude.
C10_Altitude ==
    (fn = "main" /\ Len(calls) >= 1)
        => LET alt == IF ~ args.radar THEN Some(GeoAlt) ELSE args.radar_alt
           IN  /\ calls[1].f = "look_angles"
               /\ calls[1].a[4] = alt
               /\ \A i \in 1..Len(calls) :
                     calls[i].f = "path_loss" =>
                         calls[i].a[1] =
                             look_angles_default(args.sat_long,
                                                 args.rx_long, args.rx_lat,
                                                 alt[1]).val[3]

\* Radar mode off with a radar altitude of 1000 km supplied: path_loss was
\* given the slant range to the geostationary orbit.
C10_Witness ==
    /\ fn = "main"
    /\ ~ args.radar /\ args.radar_alt = Some(1000)
    /\ \E i \in 1..Len(calls) :
          calls[i].f = "path_loss" /\ calls[i].a[1] > GeoAlt

\* C11: the two noise conversions are inverses of each other.  A noise
\* figure converted to a temperature and back is the same noise figure; a
\* temperature of 0 K or more converted to a noise figure and back is the
\* same temperature to within the resolution of the noise figure (half a
\* step of 0.1 dB, 1.2 % of T0 + Te, and one 0.001 of the noise factor).
C11_RoundTrip ==
    pc = "round_trip"
        => /\ fn = "noise_temp_to_noise_fig" => ret = Ok(Some(loc.first))
           /\ fn = "noise_fig_to_noise_temp" =>
                LET Te   == loc.first
                    back == ret.val[1]
                    diff == IF back >= Te THEN back - Te ELSE Te - back
                IN  /\ ret.exc = "none"
                    /\ diff <= (12 * ((Te + 1000 * T0) \div 1000)) + T0
                    /\ noise_temp_to_noise_fig(back) = args.nf

\* A noise figure of 8 dB went to 1540 K (1539.78 K in doubles) and came
\* back as 8 dB.
C11_Witness ==
    /\ pc = "round_trip"
    /\ fn = "noise_temp_to_noise_fig"
    /\ loc.first = 80
    /\ args.Te = 1539900
    /\ ret = Ok(Some(80))

\* C12: coax_loss_nf returns a loss of 0.08 dB per foot of line, and with the
\* line at T0 (given, or by default) a noise figure equal to that loss.
C12_CoaxAtT0 ==
    fn = "coax_loss_nf"
        => /\ ret.exc = "none"
           /\ 10 * ret.val[1] = 8 * args.length_ft
           /\ (args.Tl = None \/ args.Tl = Some(T0)) => ret.val[2] = ret.val[1]

\* 110 ft of line at the default temperature: loss 8.8 dB, noise figure
\* 8.8 dB.
C12_Witness ==
    /\ fn = "coax_loss_nf"
    /\ args.length_ft = 110 /\ args.Tl = None
    /\ ret = Ok(<< 88, 88 >>)

\* C13: cnr returns eirp - path loss + rx gain - system noise temperature
\* + 228.6 - bandwidth in dB-Hz, which is the received power minus the system
\* noise temperature, minus Boltzmann's constant of -228.6 dB, minus the
\* bandwidth in dB.
C13_CnrFormula ==
    fn = "cnr"
        => LET bw_db    == Log10C(args.bw, 1)
               P_rx_dbw == args.eirp_db - args.path_loss_db
                             + args.rx_ant_gain_db
           IN  /\ ret = Ok(Some(args.eirp_db - args.path_loss_db
                                 + args.rx_ant_gain_db - args.T_sys_db
                                 + 2286 - bw_db))
               /\ ret.val[1] = P_rx_dbw - args.T_sys_db - (-2286) - bw_db

\* EIRP 50 dBW, path loss 205.1 dB, gain 35 dB, 25.5 dBK and 1 MHz (60 dB-Hz)
\* gave 50 - 205.1 + 35 - 25.5 + 228.6 - 60 = 23.0 dB.
C13_Witness ==
    /\ fn = "cnr"
    /\ args = [eirp_db |-> 500, path_loss_db |-> 2051, rx_ant_gain_db |-> 350,
               T_sys_db |-> 255, bw |-> 1000000]
    /\ ret = Ok(Some(230))

\* The namespaces that differ from a in the transmit power, the transmit dish
\* size and the transmit dish gain only.
TxVariants(a) ==
    {[a EXCEPT !.tx_power = p, !.tx_dish_size = sz, !.tx_dish_gain = g] :
        p \in Opt(TxPowers), sz \in Opt({240, 900}), g \in Opt({400, 0})}

\* C14: in a run of analyze that returns a result, a supplied EIRP is the
\* result's EIRP and the result is the same whatever the transmit power, dish
\* size and dish gain are; without an EIRP the result's EIRP is the transmit
\* power plus the supplied dish gain or, if none is supplied, plus the gain
\* dish_gain computes from the dish size at the carrier frequency.
C14_EirpResolution ==
    (fn = "main" /\ pc = "done")
        => /\ ret = analyze(args)
           /\ args.eirp # None =>
                /\ res[1].eirp_db = args.eirp[1]
                /\ \A b \in TxVariants(args) : analyze(b) = ret
           /\ args.eirp = None =>
                res[1].eirp_db =
                    args.tx_power[1]
                      + (IF args.tx_dish_gain # None THEN args.tx_dish_gain[1]
                         ELSE dish_gain(args.tx_dish_size[1], args.freq))

\* A run with an EIRP of 50 dBW and a transmit dish gain of 40 dB returned a
\* result whose EIRP is 50 dBW.
C14_Witness ==
    /\ fn = "main" /\ pc = "done"
    /\ args.eirp = Some(500) /\ args.tx_dish_gain = Some(400)
    /\ res[1].eirp_db = 500

\* C15: look_angles runs the ellipsoidal solver for the selector
\* 'ellipsoidal' (also the default) and the spherical solver for every other
\* selector, known or unknown, raising no error for the selector: the outcome
\* is the one of _look_angles_spherical for the same arguments, and an error
\* only where that solver itself raises (ValueError or ZeroDivisionError of
\* line 150).  analyze calls look_angles without a selector, so its pointing
\* is the ellipsoidal solver's.
C15_OpenSelector ==
    /\ fn = "look_angles" =>
          IF args.implementation \in {None, Some("ellipsoidal")}
          THEN ret = Ok(look_angles_ellipsoidal(args.sat_long, args.rx_long,
                                                args.rx_lat, 0, args.sat_alt))
          ELSE LET r == look_angles_spherical(args.sat_long, args.rx_long,
                                              args.rx_lat, args.sat_alt,
                                              loc.rounding)
               IN  /\ ret = [exc |-> r.exc, msg |-> r.msg, val |-> r.val]
                   /\ ret.exc \in {"none", "ValueError", "ZeroDivisionError"}
                   /\ ~ RoundingSensitive(args.sat_long, args.rx_long,
                                          args.rx_lat)
                        => (ret.exc = "none" <=> ~ (args.rx_lat = 0
                                                     /\ args.sat_long = 0))
    /\ (fn = "main" /\ Len(calls) >= 1) =>
          /\ calls[1].f = "look_angles"
          /\ Len(calls[1].a) = 4
          /\ << loc.elevation, loc.azimuth, loc.slant_range >> =
                look_angles_ellipsoidal(args.sat_long, args.rx_long,
                                        args.rx_lat, 0, loc.sat_alt)

\* The unknown selector 'geodetic' ran the spherical solver: for a receiver
\* at 45 S and a satellite 10 degrees west it returned the spherical
\* solver's azimuth of 195 degrees (194.0 in doubles), not the ellipsoidal
\* solver's.
C15_Witness ==
    /\ fn = "look_angles"
    /\ args.implementation = Some("geodetic")
    /\ args.rx_lat = -45 /\ args.sat_long = -10
    /\ ret.exc = "none"
    /\ ret.val[2] = 195
    /\ ret.val # look_angles_ellipsoidal(-10, 0, -45, 0, args.sat_alt)

====
